---- MODULE Spec2Model ----
(***************************************************************************)
(* Model of the daily digest bot (bot-viethoang).                          *)
(*                                                                         *)
(*   Spec           one execution of usecase.DailyDigest.Run against its   *)
(*                  four ports (problem source, article source, writer,    *)
(*                  notifier); every blocking call is a call step followed *)
(*                  by a return step.                                      *)
(*   SpecComposite  one execution of articles.CompositeProvider            *)
(*                  .GetRecommendedArticles over its provider chain.       *)
(*                                                                         *)
(* Strings are TLA+ strings; Go's byte indices are 0-based, TLA+ positions *)
(* are 1-based, so index i of the source is position i+1 here.             *)
(***************************************************************************)
EXTENDS Integers, Sequences, FiniteSets, TLC

VARIABLES
    cfg,            \* DailyDigest.randomCount / articleCount / writer / articles
    pc,             \* position of DailyDigest.Run
    inflight,       \* the port call Run is blocked in, or "none"
    daily,          \* Run's local `daily` (NoProblem before the fetch)
    randomProblems, \* Run's local `randomProblems`
    articles,       \* Run's local `articles`
    insight,        \* Run's local `insight`
    notification,   \* Run's local `notification` (NoNotification before it is built)
    result,         \* what Run returned: "running", "nil" or an error value
    trace,          \* the port calls and returns of this run, in order
    chain,          \* CompositeProvider: number of providers in c.providers
    cpc,            \* CompositeProvider: position of GetRecommendedArticles
    count,          \* CompositeProvider: the `count` argument
    idx,            \* CompositeProvider: index of the provider whose turn it is
    results,        \* CompositeProvider: local `results`
    seen,           \* CompositeProvider: local `seen`
    firstErr,       \* CompositeProvider: local `firstErr` ("nil" when unset)
    provCalls,      \* CompositeProvider: the provider calls made, in order
    ret,            \* CompositeProvider: the (items, err) pair returned
    medium,         \* MediumProvider.GetRecommendedArticles: its locals, as a record
    writer,         \* GeminiWriter.Compose: its locals, as a record
    trunc,          \* a truncation helper applied to one input, as a record
    app             \* app.App: Run, the cron scheduler and the digest runs, as a record

vars == << cfg, pc, inflight, daily, randomProblems, articles, insight,
           notification, result, trace,
           chain, cpc, count, idx, results, seen, firstErr, provCalls, ret,
           medium, writer, trunc, app >>

runVars == << cfg, pc, inflight, daily, randomProblems, articles, insight,
              notification, result, trace >>

compVars == << chain, cpc, count, idx, results, seen, firstErr, provCalls, ret >>

restVars == << medium, writer, trunc, app >>

----------------------------------------------------------------------------
(* Bounds *)

MaxCount == 2        \* largest configured target count
MaxSourceLen == 3    \* longest list a source returns
MaxChain == 2        \* longest provider chain of the composite
MaxItems == 2        \* longest list one article provider returns

----------------------------------------------------------------------------
(* Go string helpers *)

Space == " "

IsSpace(ch) == ch \in {" ", "\t", "\n", "\r"}

CharAt(s, i) == SubSeq(s, i, i)

\* strings.LastIndex(s, " "), as a 1-based position; 0 when there is none
RECURSIVE LastIndexFrom(_, _)
LastIndexFrom(s, i) ==
    IF i = 0 THEN 0
    ELSE IF CharAt(s, i) = Space THEN i
    ELSE LastIndexFrom(s, i - 1)

LastIndex(s) == LastIndexFrom(s, Len(s))

RECURSIVE TrimLeft(_)
TrimLeft(s) ==
    IF Len(s) > 0 /\ IsSpace(CharAt(s, 1)) THEN TrimLeft(SubSeq(s, 2, Len(s))) ELSE s

RECURSIVE TrimRight(_)
TrimRight(s) ==
    IF Len(s) > 0 /\ IsSpace(CharAt(s, Len(s))) THEN TrimRight(SubSeq(s, 1, Len(s) - 1)) ELSE s

TrimSpace(s) == TrimRight(TrimLeft(s))

\* the lower-case letter of every upper-case ASCII letter
LowerTable ==
    [ch \in { "A", "B", "C", "D", "E", "F", "G", "H", "I", "J", "K", "L", "M",
              "N", "O", "P", "Q", "R", "S", "T", "U", "V", "W", "X", "Y", "Z" } |->
        CASE ch = "A" -> "a" [] ch = "B" -> "b" [] ch = "C" -> "c" [] ch = "D" -> "d"
          [] ch = "E" -> "e" [] ch = "F" -> "f" [] ch = "G" -> "g" [] ch = "H" -> "h"
          [] ch = "I" -> "i" [] ch = "J" -> "j" [] ch = "K" -> "k" [] ch = "L" -> "l"
          [] ch = "M" -> "m" [] ch = "N" -> "n" [] ch = "O" -> "o" [] ch = "P" -> "p"
          [] ch = "Q" -> "q" [] ch = "R" -> "r" [] ch = "S" -> "s" [] ch = "T" -> "t"
          [] ch = "U" -> "u" [] ch = "V" -> "v" [] ch = "W" -> "w" [] ch = "X" -> "x"
          [] ch = "Y" -> "y" [] ch = "Z" -> "z"]

\* unicode.ToLower on an ASCII character
LowerOf(ch) == IF ch \in DOMAIN LowerTable THEN LowerTable[ch] ELSE ch

RECURSIVE ToLower(_)
ToLower(s) ==
    IF Len(s) = 0 THEN s
    ELSE LowerOf(CharAt(s, 1)) \o ToLower(SubSeq(s, 2, Len(s)))

----------------------------------------------------------------------------
(* Domain model *)

NoProblem == [ID |-> 0, Title |-> "", Slug |-> "", Difficulty |-> "",
              Link |-> "", Content |-> "", Topics |-> << >>]

resolveLink(slug, fallback) ==
    IF fallback # "" THEN "https://leetcode.com" \o fallback
    ELSE "https://leetcode.com/problems/" \o slug \o "/"

difficultyToString(level) ==
    CASE level = 1 -> "Easy"
      [] level = 2 -> "Medium"
      [] level = 3 -> "Hard"
      [] OTHER -> "Unknown"


\* model.Problem as Client.GetRandomProblems builds it from one stat_status_pair
Problem(id, title, slug, level) ==
    [ID |-> id, Title |-> title, Slug |-> slug,
     Difficulty |-> difficultyToString(level),
     Link |-> resolveLink(slug, ""), Content |-> "", Topics |-> << >>]

\* items a problem source can return
SourceProblems ==
    { Problem(1, "Two Sum", "two-sum", 1),
      Problem(15, "3Sum", "three-sum", 2),
      Problem(18, "4Sum", "four-sum", 3) }

\* sequences over S of length at most n
SeqUpTo(S, n) == UNION { [1..k -> S] : k \in 0..n }

\* the activeDailyCodingChallengeQuestion payloads of the GraphQL endpoint;
\* `content` is the text htmlToText extracts from the payload's HTML
DailyResponses ==
    { [titleSlug |-> "two-sum", id |-> 1, title |-> "Two Sum", difficulty |-> "Easy",
       link |-> "/problems/two-sum/", content |-> "find two  numbers",
       topicTags |-> << "Array", "Hash Table" >>],
      [titleSlug |-> "three-sum", id |-> 15, title |-> "3Sum", difficulty |-> "Medium",
       link |-> "", content |-> "", topicTags |-> << >>],
      [titleSlug |-> "lru-cache", id |-> 146, title |-> "LRU Cache", difficulty |-> "Medium",
       link |-> "/problems/lru-cache/", content |-> "", topicTags |-> << "Design" >>],
      [titleSlug |-> "", id |-> 0, title |-> "", difficulty |-> "",
       link |-> "", content |-> "", topicTags |-> << >>] }

\* error values of a failed port call (transport failure, deadline expiry)
Errors == { "perform request", "context deadline exceeded" }

ErrEmptyDaily == "empty daily challenge data"

\* Client.GetDailyChallenge after a decoded response q: (problem, err)
GetDailyChallenge(q) ==
    IF q.titleSlug = ""
    THEN [problem |-> NoProblem, err |-> ErrEmptyDaily]
    ELSE [problem |-> [ID |-> q.id, Title |-> q.title, Slug |-> q.titleSlug,
                       Difficulty |-> q.difficulty,
                       Link |-> resolveLink(q.titleSlug, q.link),
                       Content |-> TrimSpace(q.content), Topics |-> q.topicTags],
          err |-> "nil"]

\* model.Article
Article(title, link, source) == [Title |-> title, Link |-> link, Source |-> source]

----------------------------------------------------------------------------
(* usecase.DailyDigest: pure parts *)

\* fault: the loop appends without recording the slug in `seen`
RECURSIVE UniqueLoop_NothingRecorded(_, _, _)
UniqueLoop_NothingRecorded(problems, seenSlugs, unique) ==
    IF problems = << >> THEN unique
    ELSE LET p == Head(problems) IN
         IF p.Slug \in seenSlugs
         THEN UniqueLoop_NothingRecorded(Tail(problems), seenSlugs, unique)
         ELSE UniqueLoop_NothingRecorded(Tail(problems), seenSlugs, Append(unique, p))

\* the filter loop of fetchRandomProblems over `problems`
RECURSIVE UniqueLoop(_, _, _)
UniqueLoop(problems, seenSlugs, unique) ==
    IF problems = << >> THEN unique
    ELSE LET p == Head(problems) IN
         IF p.Slug \in seenSlugs
         THEN UniqueLoop(Tail(problems), seenSlugs, unique)
         ELSE UniqueLoop(Tail(problems), seenSlugs \cup {p.Slug}, Append(unique, p))

\* fault: `seen` is not seeded with the featured slug
UniqueProblems_NoDailySeed(d, problems) == UniqueLoop(problems, {}, << >>)

\* fetchRandomProblems after a successful GetRandomProblems
UniqueProblems(d, problems) ==
    LET dailySlug == IF d # NoProblem THEN d.Slug ELSE ""
        seen0 == IF dailySlug # "" THEN {dailySlug} ELSE {}
    IN UniqueLoop(problems, seen0, << >>)

trimForDiscord(content, limit) ==
    IF Len(content) <= limit THEN content
    ELSE LET trimmed == SubSeq(content, 1, limit)
             lastSpace == LastIndex(trimmed)
         IN (IF lastSpace > 1 THEN SubSeq(trimmed, 1, lastSpace - 1) ELSE trimmed) \o "..."


\* strings.Join(elems, sep)
RECURSIVE Join(_, _)
Join(elems, sep) ==
    IF Len(elems) = 0 THEN ""
    ELSE IF Len(elems) = 1 THEN elems[1]
    ELSE elems[1] \o sep \o Join(Tail(elems), sep)

\* strings.Fields(s): the maximal runs of non-space characters; cur is the
\* run being read
RECURSIVE FieldsFrom(_, _, _)
FieldsFrom(s, i, cur) ==
    IF i > Len(s) THEN (IF cur = "" THEN << >> ELSE << cur >>)
    ELSE IF IsSpace(CharAt(s, i))
         THEN (IF cur = "" THEN << >> ELSE << cur >>) \o FieldsFrom(s, i + 1, "")
         ELSE FieldsFrom(s, i + 1, cur \o CharAt(s, i))

Fields(s) == FieldsFrom(s, 1, "")

summarizeText(content, limit) ==
    LET clean == Join(Fields(content), " ") IN
    IF clean = "" THEN ""
    ELSE IF Len(clean) <= limit THEN clean
    ELSE LET trimmed == SubSeq(clean, 1, limit)
             lastSpace == LastIndex(trimmed)
         IN (IF lastSpace > 1 THEN SubSeq(trimmed, 1, lastSpace - 1) ELSE trimmed) \o "..."

SummaryLimit == 420

formatProblemDetail(p) ==
    LET head == "**Link:** [" \o p.Title \o "](" \o p.Link \o ")\n"
                \o "**Difficulty:** " \o p.Difficulty \o "\n"
        topics == IF Len(p.Topics) > 0
                  THEN "**Topics:** " \o Join(p.Topics, ", ") \o "\n" ELSE ""
        summary == IF p.Content # "" THEN summarizeText(p.Content, SummaryLimit) ELSE ""
    IN head \o topics \o (IF summary # "" THEN "\n> _" \o summary \o "_" ELSE "")

\* the lines of formatPracticeQueue, entry i onward
RECURSIVE PracticeLines(_, _)
PracticeLines(problems, i) ==
    IF i > Len(problems) THEN << >>
    ELSE << "**" \o ToString(i) \o ". [" \o problems[i].Title \o "](" \o problems[i].Link
            \o ")**\n   Difficulty: *" \o problems[i].Difficulty \o "*" >>
         \o PracticeLines(problems, i + 1)

formatPracticeQueue(problems) == Join(PracticeLines(problems, 1), "\n\n")

\* the lines of formatArticleList, entry i onward
RECURSIVE ArticleLines(_, _)
ArticleLines(as, i) ==
    IF i > Len(as) THEN << >>
    ELSE LET source == IF as[i].Source = "" THEN "Curated" ELSE as[i].Source IN
         << "**" \o ToString(i) \o ".** [" \o as[i].Title \o "](" \o as[i].Link
            \o ")\n   _from " \o source \o "_" >>
         \o ArticleLines(as, i + 1)

formatArticleList(as) == Join(ArticleLines(as, 1), "\n\n")

\* fault: no text for a missing featured problem
fallbackDescription_NoGeneric(d) ==
    IF d = NoProblem THEN ""
    ELSE "**Daily Focus:** " \o d.Title \o " (" \o d.Difficulty \o ")\n"

\* the Vietnamese literals of the source are written without diacritics
fallbackDescription(d) ==
    IF d = NoProblem THEN "Curated plan for algorithms practice today."
    ELSE "**Daily Focus:** " \o d.Title \o " (" \o d.Difficulty \o ")\n"
         \o (IF Len(d.Topics) > 0
             THEN "Chu de trong tam: " \o Join(d.Topics, ", ") \o "."
             ELSE "Tap trung phan tich ky thuat loi va cach toi uu loi giai.")

NoNotification == [Title |-> "", Description |-> "", Fields |-> << >>]

\* fault: the practice queue field is added also for an empty list
buildNotification_EmptyQueueShown(d, random, as, text) ==
    LET f1 == IF d # NoProblem
              THEN << [Name |-> "Daily Challenge", Value |-> formatProblemDetail(d),
                       Inline |-> FALSE] >>
              ELSE << >>
        f2 == << [Name |-> "Practice Queue", Value |-> formatPracticeQueue(random),
                  Inline |-> FALSE] >>
        f3 == IF Len(as) > 0
              THEN << [Name |-> "Algorithm Reading List", Value |-> formatArticleList(as),
                       Inline |-> FALSE] >>
              ELSE << >>
    IN [Title |-> "Daily LeetCode & Algorithms Digest",
        Description |-> IF text # "" THEN text ELSE fallbackDescription(d),
        Fields |-> f1 \o f2 \o f3]

buildNotification(d, random, as, text) ==
    LET f1 == IF d # NoProblem
              THEN << [Name |-> "Daily Challenge", Value |-> formatProblemDetail(d),
                       Inline |-> FALSE] >>
              ELSE << >>
        f2 == IF Len(random) > 0
              THEN << [Name |-> "Practice Queue", Value |-> formatPracticeQueue(random),
                       Inline |-> FALSE] >>
              ELSE << >>
        f3 == IF Len(as) > 0
              THEN << [Name |-> "Algorithm Reading List", Value |-> formatArticleList(as),
                       Inline |-> FALSE] >>
              ELSE << >>
    IN [Title |-> "Daily LeetCode & Algorithms Digest",
        Description |-> IF text # "" THEN text ELSE fallbackDescription(d),
        Fields |-> f1 \o f2 \o f3]

InsightLimit == 1900


----------------------------------------------------------------------------
(* usecase.DailyDigest.Run *)

\* what NewDailyDigest can be constructed with
Configs ==
    [randomCount : (-1)..MaxCount, articleCount : 0..MaxCount,
     hasWriter : BOOLEAN, hasArticles : BOOLEAN]

\* lists the article port hands to Run
RunArticleLists ==
    { << >>,
      << Article("Heaps in Go", "https://dev.to/x/heaps", "") >>,
      << Article("Dijkstra explained", "https://medium.com/p/dijkstra", "Medium"),
         Article("Heaps in Go", "https://dev.to/x/heaps", "") >> }

\* s repeated n times
RECURSIVE Repeat(_, _)
Repeat(s, n) == IF n = 0 THEN "" ELSE s \o Repeat(s, n - 1)

\* a narrative of 1960 bytes: longer than the 1900 of composeInsight, within
\* the 2000 bytes the bundled writer returns at most
LongNarrative == Repeat("Sort the input, then sweep it with two pointers. ", 40)

\* texts the writer port returns on success
Narratives == { "", "Use a hash map to find the complement.", LongNarrative }

Call(op, arg) == [ev |-> "call", op |-> op, arg |-> arg, err |-> "nil"]
Return(op, val, err) == [ev |-> "ret", op |-> op, arg |-> val, err |-> err]

\* the Medium provider, the writer and the truncation helpers are not executing
RestIdle ==
    /\ medium = [pc |-> "idle"]
    /\ writer = [pc |-> "idle"]
    /\ trunc = [pc |-> "idle"]
    /\ app = [main |-> "idle"]

CompIdle ==
    /\ chain = 0 /\ cpc = "idle" /\ count = 0 /\ idx = 0
    /\ results = << >> /\ seen = {} /\ firstErr = "nil"
    /\ provCalls = << >> /\ ret = [items |-> << >>, err |-> "nil"]

Init ==
    /\ cfg \in Configs
    /\ pc = "daily"
    /\ inflight = "none"
    /\ daily = NoProblem
    /\ randomProblems = << >>
    /\ articles = << >>
    /\ insight = ""
    /\ notification = NoNotification
    /\ result = "running"
    /\ trace = << >>
    /\ CompIdle
    /\ RestIdle

\* line 55: d.problems.GetDailyChallenge(ctx) is entered
CallGetDailyChallenge ==
    /\ pc = "daily" /\ inflight = "none"
    /\ inflight' = "GetDailyChallenge"
    /\ trace' = Append(trace, Call("GetDailyChallenge", 0))
    /\ UNCHANGED << cfg, pc, daily, randomProblems, articles, insight, notification, result >>
    /\ UNCHANGED << compVars, restVars >>

\* fault: the failure is logged and the run goes on without a featured problem
DailyFailure_Swallowed(e) ==
    /\ inflight' = "none"
    /\ trace' = Append(trace, Return("GetDailyChallenge", NoProblem, e))
    /\ pc' = "random"
    /\ UNCHANGED << cfg, daily, randomProblems, articles, insight, notification, result >>
    /\ UNCHANGED << compVars, restVars >>

\* lines 55-59: the fetch failed with e; Run logs and returns e
DailyFailure(e) ==
    /\ inflight' = "none"
    /\ trace' = Append(trace, Return("GetDailyChallenge", NoProblem, e))
    /\ result' = e
    /\ pc' = "done"
    /\ UNCHANGED << cfg, daily, randomProblems, articles, insight, notification >>
    /\ UNCHANGED << compVars, restVars >>

\* the request itself failed (transport error, deadline)
GetDailyChallengeFails ==
    /\ inflight = "GetDailyChallenge"
    /\ \E e \in Errors : DailyFailure(e)

\* a response was decoded; an empty titleSlug is an error of the client
GetDailyChallengeReturns ==
    /\ inflight = "GetDailyChallenge"
    /\ \E q \in DailyResponses :
         LET r == GetDailyChallenge(q) IN
         IF r.err # "nil" THEN DailyFailure(r.err)
         ELSE /\ inflight' = "none"
              /\ trace' = Append(trace, Return("GetDailyChallenge", r.problem, "nil"))
              /\ daily' = r.problem
              /\ pc' = "random"
              /\ UNCHANGED << cfg, randomProblems, articles, insight, notification, result >>
              /\ UNCHANGED << compVars, restVars >>

\* fetchRandomProblems lines 76-78: randomCount <= 0, no call
FetchRandomSkipped ==
    /\ pc = "random" /\ inflight = "none"
    /\ cfg.randomCount <= 0
    /\ randomProblems' = << >>
    /\ pc' = "articles"
    /\ UNCHANGED << cfg, inflight, daily, articles, insight, notification, result, trace >>
    /\ UNCHANGED << compVars, restVars >>

\* fetchRandomProblems line 80: GetRandomProblems(ctx, d.randomCount) is entered
CallGetRandomProblems ==
    /\ pc = "random" /\ inflight = "none"
    /\ cfg.randomCount > 0
    /\ inflight' = "GetRandomProblems"
    /\ trace' = Append(trace, Call("GetRandomProblems", cfg.randomCount))
    /\ UNCHANGED << cfg, pc, daily, randomProblems, articles, insight, notification, result >>
    /\ UNCHANGED << compVars, restVars >>

\* fault: a failed source is asked again
GetRandomProblemsFails_Retry ==
    /\ inflight = "GetRandomProblems"
    /\ \E e \in Errors :
         /\ trace' = Append(trace, Return("GetRandomProblems", << >>, e))
    /\ inflight' = "none"
    /\ UNCHANGED << cfg, pc, daily, randomProblems, articles, insight, notification, result >>
    /\ UNCHANGED << compVars, restVars >>

\* fetchRandomProblems lines 81-84: the source failed; logged, nil returned
GetRandomProblemsFails ==
    /\ inflight = "GetRandomProblems"
    /\ \E e \in Errors :
         /\ trace' = Append(trace, Return("GetRandomProblems", << >>, e))
    /\ inflight' = "none"
    /\ randomProblems' = << >>
    /\ pc' = "articles"
    /\ UNCHANGED << cfg, daily, articles, insight, notification, result >>
    /\ UNCHANGED << compVars, restVars >>

\* fetchRandomProblems lines 86-105: the source returned `problems`
GetRandomProblemsReturns ==
    /\ inflight = "GetRandomProblems"
    /\ \E problems \in SeqUpTo(SourceProblems, MaxSourceLen) :
         /\ trace' = Append(trace, Return("GetRandomProblems", problems, "nil"))
         /\ randomProblems' = UniqueProblems(daily, problems)
    /\ inflight' = "none"
    /\ pc' = "articles"
    /\ UNCHANGED << cfg, daily, articles, insight, notification, result >>
    /\ UNCHANGED << compVars, restVars >>

\* fetchArticles lines 109-111: no provider or articleCount <= 0, no call
FetchArticlesSkipped ==
    /\ pc = "articles" /\ inflight = "none"
    /\ (~cfg.hasArticles \/ cfg.articleCount <= 0)
    /\ articles' = << >>
    /\ pc' = "compose"
    /\ UNCHANGED << cfg, inflight, daily, randomProblems, insight, notification, result, trace >>
    /\ UNCHANGED << compVars, restVars >>

\* fetchArticles line 113: GetRecommendedArticles(ctx, d.articleCount) is entered
CallGetRecommendedArticles ==
    /\ pc = "articles" /\ inflight = "none"
    /\ cfg.hasArticles /\ cfg.articleCount > 0
    /\ inflight' = "GetRecommendedArticles"
    /\ trace' = Append(trace, Call("GetRecommendedArticles", cfg.articleCount))
    /\ UNCHANGED << cfg, pc, daily, randomProblems, articles, insight, notification, result >>
    /\ UNCHANGED << compVars, restVars >>

\* fault: an article failure aborts the run
GetRecommendedArticlesFails_Abort ==
    /\ inflight = "GetRecommendedArticles"
    /\ \E e \in Errors :
         /\ trace' = Append(trace, Return("GetRecommendedArticles", << >>, e))
         /\ result' = e
    /\ inflight' = "none"
    /\ pc' = "done"
    /\ UNCHANGED << cfg, daily, randomProblems, articles, insight, notification >>
    /\ UNCHANGED << compVars, restVars >>

\* fetchArticles lines 114-117: the provider failed; logged, nil returned
GetRecommendedArticlesFails ==
    /\ inflight = "GetRecommendedArticles"
    /\ \E e \in Errors :
         /\ trace' = Append(trace, Return("GetRecommendedArticles", << >>, e))
    /\ inflight' = "none"
    /\ articles' = << >>
    /\ pc' = "compose"
    /\ UNCHANGED << cfg, daily, randomProblems, insight, notification, result >>
    /\ UNCHANGED << compVars, restVars >>

\* fetchArticles line 119: the provider returned `items`
GetRecommendedArticlesReturns ==
    /\ inflight = "GetRecommendedArticles"
    /\ \E items \in RunArticleLists :
         /\ trace' = Append(trace, Return("GetRecommendedArticles", items, "nil"))
         /\ articles' = items
    /\ inflight' = "none"
    /\ pc' = "compose"
    /\ UNCHANGED << cfg, daily, randomProblems, insight, notification, result >>
    /\ UNCHANGED << compVars, restVars >>

\* composeInsight lines 123-125: no writer configured, no call
ComposeSkipped ==
    /\ pc = "compose" /\ inflight = "none"
    /\ ~cfg.hasWriter
    /\ insight' = ""
    /\ pc' = "send"
    /\ UNCHANGED << cfg, inflight, daily, randomProblems, articles, notification, result, trace >>
    /\ UNCHANGED << compVars, restVars >>

\* fault: Compose is handed an empty article list
CallCompose_NoArticles ==
    /\ pc = "compose" /\ inflight = "none"
    /\ cfg.hasWriter
    /\ inflight' = "Compose"
    /\ trace' = Append(trace, Call("Compose",
                  [daily |-> daily, random |-> randomProblems, articles |-> << >>]))
    /\ UNCHANGED << cfg, pc, daily, randomProblems, articles, insight, notification, result >>
    /\ UNCHANGED << compVars, restVars >>

\* composeInsight line 127: writer.Compose(ctx, daily, random, articles) is entered
CallCompose ==
    /\ pc = "compose" /\ inflight = "none"
    /\ cfg.hasWriter
    /\ inflight' = "Compose"
    /\ trace' = Append(trace, Call("Compose",
                  [daily |-> daily, random |-> randomProblems, articles |-> articles]))
    /\ UNCHANGED << cfg, pc, daily, randomProblems, articles, insight, notification, result >>
    /\ UNCHANGED << compVars, restVars >>

\* fault: the text of the error becomes the insight
ComposeFails_ErrorShown ==
    /\ inflight = "Compose"
    /\ \E e \in Errors :
         /\ trace' = Append(trace, Return("Compose", "", e))
         /\ insight' = e
    /\ inflight' = "none"
    /\ pc' = "send"
    /\ UNCHANGED << cfg, daily, randomProblems, articles, notification, result >>
    /\ UNCHANGED << compVars, restVars >>

\* composeInsight lines 128-131: the writer failed; logged, "" returned
ComposeFails ==
    /\ inflight = "Compose"
    /\ \E e \in Errors :
         /\ trace' = Append(trace, Return("Compose", "", e))
    /\ inflight' = "none"
    /\ insight' = ""
    /\ pc' = "send"
    /\ UNCHANGED << cfg, daily, randomProblems, articles, notification, result >>
    /\ UNCHANGED << compVars, restVars >>

\* composeInsight line 133: the writer returned `text`
ComposeReturns ==
    /\ inflight = "Compose"
    /\ \E text \in Narratives :
         /\ trace' = Append(trace, Return("Compose", text, "nil"))
         /\ insight' = trimForDiscord(text, InsightLimit)
    /\ inflight' = "none"
    /\ pc' = "send"
    /\ UNCHANGED << cfg, daily, randomProblems, articles, notification, result >>
    /\ UNCHANGED << compVars, restVars >>

\* lines 65-66: the notification is built and notifier.Send is entered
CallSend ==
    /\ pc = "send" /\ inflight = "none"
    /\ LET n == buildNotification(daily, randomProblems, articles, insight) IN
         /\ notification' = n
         /\ trace' = Append(trace, Call("Send", n))
    /\ inflight' = "Send"
    /\ UNCHANGED << cfg, pc, daily, randomProblems, articles, insight, result >>
    /\ UNCHANGED << compVars, restVars >>

\* fault: a failed Send is attempted again
SendFails_Retry ==
    /\ inflight = "Send"
    /\ \E e \in Errors :
         /\ trace' = Append(trace, Return("Send", "", e))
    /\ inflight' = "none"
    /\ UNCHANGED << cfg, pc, daily, randomProblems, articles, insight, notification, result >>
    /\ UNCHANGED << compVars, restVars >>

\* lines 66-69: Send failed; Run logs and returns the error
SendFails ==
    /\ inflight = "Send"
    /\ \E e \in Errors :
         /\ trace' = Append(trace, Return("Send", "", e))
         /\ result' = e
    /\ inflight' = "none"
    /\ pc' = "done"
    /\ UNCHANGED << cfg, daily, randomProblems, articles, insight, notification >>
    /\ UNCHANGED << compVars, restVars >>

\* lines 71-72: Send succeeded; Run returns nil
SendReturns ==
    /\ inflight = "Send"
    /\ trace' = Append(trace, Return("Send", "", "nil"))
    /\ result' = "nil"
    /\ inflight' = "none"
    /\ pc' = "done"
    /\ UNCHANGED << cfg, daily, randomProblems, articles, insight, notification >>
    /\ UNCHANGED << compVars, restVars >>

Next ==
    \/ CallGetDailyChallenge
    \/ GetDailyChallengeFails
    \/ GetDailyChallengeReturns
    \/ FetchRandomSkipped
    \/ CallGetRandomProblems
    \/ GetRandomProblemsFails
    \/ GetRandomProblemsReturns
    \/ FetchArticlesSkipped
    \/ CallGetRecommendedArticles
    \/ GetRecommendedArticlesFails
    \/ GetRecommendedArticlesReturns
    \/ ComposeSkipped
    \/ CallCompose
    \/ ComposeFails
    \/ ComposeReturns
    \/ CallSend
    \/ SendFails
    \/ SendReturns

Spec == Init /\ [][Next]_vars


----------------------------------------------------------------------------
(* Reading the trace of a run *)

Events == DOMAIN trace

IsCall(i, op) == trace[i].ev = "call" /\ trace[i].op = op
IsReturn(i, op) == trace[i].ev = "ret" /\ trace[i].op = op
Failed(i, op) == IsReturn(i, op) /\ trace[i].err # "nil"
Succeeded(i, op) == IsReturn(i, op) /\ trace[i].err = "nil"

NumCalls(op) == Cardinality({ i \in Events : IsCall(i, op) })

HasFailed(op) == \E i \in Events : Failed(i, op)
HasSucceeded(op) == \E i \in Events : Succeeded(i, op)

OptionalOps == { "GetRandomProblems", "GetRecommendedArticles", "Compose" }

Rank(op) ==
    CASE op = "GetDailyChallenge" -> 1
      [] op = "GetRandomProblems" -> 2
      [] op = "GetRecommendedArticles" -> 3
      [] op = "Compose" -> 4
      [] op = "Send" -> 5

----------------------------------------------------------------------------
(* C1: when GetDailyChallenge fails, Run returns that very error and the run
   has made no call to GetRandomProblems, to the article provider, to
   Compose or to Send, and has built no notification. *)
C1_FeaturedFailureAborts ==
    \A i \in Events :
        Failed(i, "GetDailyChallenge") =>
            /\ pc = "done"
            /\ result = trace[i].err
            /\ \A op \in OptionalOps \cup {"Send"} : NumCalls(op) = 0
            /\ notification = NoNotification

C1_Witness ==
    /\ pc = "done"
    /\ \E i \in Events : Failed(i, "GetDailyChallenge") /\ trace[i].err = ErrEmptyDaily
    /\ result = ErrEmptyDaily

(* C2: once the featured problem is fetched, whatever the optional steps do
   (each may fail, also by deadline expiry), Send is never called twice, a
   finished run has called it exactly once, and the run returned nil
   whenever that Send succeeded. *)
C2_OptionalFailuresStillSend ==
    HasSucceeded("GetDailyChallenge") =>
        /\ NumCalls("Send") <= 1
        /\ pc = "done" => NumCalls("Send") = 1
        /\ HasSucceeded("Send") => result = "nil"

C2_Witness ==
    /\ pc = "done"
    /\ \A op \in OptionalOps : HasFailed(op)
    /\ \E i \in Events : Failed(i, "Compose") /\ trace[i].err = "context deadline exceeded"
    /\ HasSucceeded("Send")
    /\ result = "nil"

(* C3: when Send fails, Run returns that very error, and one run never
   enters Send more than once. *)
C3_SendFailureReturnedNoRetry ==
    /\ NumCalls("Send") <= 1
    /\ \A i \in Events :
         Failed(i, "Send") => pc = "done" /\ result = trace[i].err

C3_Witness ==
    /\ pc = "done"
    /\ HasFailed("Send")
    /\ result = "perform request"
    /\ NumCalls("Send") = 1

\* the value a finished optional step left behind, read from the trace
ReturnedBy(op) ==
    LET i == CHOOSE j \in Events : IsReturn(j, op) IN trace[i]

(* C4: the port calls of one run occur in the order featured problem,
   supplementary problems, articles, narrative, send; a call is entered only
   when every earlier call has returned; the supplementary list is the
   source's list filtered with the slug of the featured problem that
   GetDailyChallenge returned; Compose is handed exactly the featured
   problem, the supplementary list and the article list of the earlier
   steps. *)
C4_SequentialOrder ==
    /\ \A i, j \in Events :
         (i < j /\ trace[i].ev = "call" /\ trace[j].ev = "call")
            => Rank(trace[i].op) < Rank(trace[j].op)
    /\ \A j \in Events :
         trace[j].ev = "call" =>
            /\ j > 1 => trace[j - 1].ev = "ret"
            /\ j < Len(trace) => (trace[j + 1].ev = "ret" /\ trace[j + 1].op = trace[j].op)
    /\ (inflight # "none") <=> (trace # << >> /\ trace[Len(trace)].ev = "call")
    /\ \A i \in Events :
         Succeeded(i, "GetRandomProblems") =>
            /\ randomProblems = UniqueProblems(ReturnedBy("GetDailyChallenge").arg, trace[i].arg)
            /\ \A k \in DOMAIN randomProblems :
                 randomProblems[k].Slug # ReturnedBy("GetDailyChallenge").arg.Slug
    /\ \A i \in Events :
         IsCall(i, "Compose") =>
            /\ trace[i].arg.daily = ReturnedBy("GetDailyChallenge").arg
            /\ trace[i].arg.random = randomProblems
            /\ trace[i].arg.articles = articles
            /\ trace[i].arg.articles =
                 (IF HasSucceeded("GetRecommendedArticles")
                  THEN ReturnedBy("GetRecommendedArticles").arg ELSE << >>)
            /\ HasFailed("GetRandomProblems") \/ NumCalls("GetRandomProblems") = 0
                 => trace[i].arg.random = << >>

C4_Witness ==
    /\ pc = "done"
    /\ \A op \in OptionalOps \cup {"GetDailyChallenge", "Send"} : HasSucceeded(op)
    /\ Len(randomProblems) = 2
    /\ Len(articles) = 2


Slugs(problems) == [k \in DOMAIN problems |-> problems[k].Slug]

(* C5: the supplementary list never holds a problem with the featured
   problem's slug, nor two problems with the same slug, for every configured
   count and every list the source returns. *)
C5_NoFeaturedNoDuplicateSlug ==
    /\ \A k \in DOMAIN randomProblems : randomProblems[k].Slug # daily.Slug
    /\ \A k, l \in DOMAIN randomProblems :
         k # l => randomProblems[k].Slug # randomProblems[l].Slug

C5_Witness ==
    /\ pc = "articles"
    /\ \E i \in Events :
         /\ Succeeded(i, "GetRandomProblems")
         /\ \E k \in DOMAIN trace[i].arg : trace[i].arg[k].Slug = daily.Slug
         /\ \E k, l \in DOMAIN trace[i].arg :
              k # l /\ trace[i].arg[k].Slug = trace[i].arg[l].Slug
                    /\ trace[i].arg[k].Slug # daily.Slug
    /\ Len(randomProblems) = 1

\* positions of `problems` whose slug is neither `slug` nor that of an earlier item
Surviving(problems, slug) ==
    { k \in DOMAIN problems :
        /\ problems[k].Slug # slug
        /\ \A j \in 1..(k - 1) : problems[j].Slug # problems[k].Slug }

\* the n-th smallest member of the set of positions S
Nth(S, n) == CHOOSE k \in S : Cardinality({ j \in S : j <= k }) = n

\* `problems` restricted to the surviving positions, order kept
Survivors(problems, slug) ==
    LET S == Surviving(problems, slug) IN
    [n \in 1..Cardinality(S) |-> problems[Nth(S, n)]]

(* C6: after a successful fetch the supplementary list is exactly the
   source's list without the items whose slug is the featured slug or the
   slug of an earlier item, in the source's order and with nothing added;
   featured two-sum, N = 2 and a source list [two-sum, three-sum, four-sum]
   give [three-sum, four-sum]. *)
C6_ExactFilteredList ==
    \A i \in Events :
        Succeeded(i, "GetRandomProblems") =>
            /\ randomProblems = Survivors(trace[i].arg, daily.Slug)
            /\ (/\ daily.Slug = "two-sum"
                /\ cfg.randomCount = 2
                /\ Slugs(trace[i].arg) = << "two-sum", "three-sum", "four-sum" >>)
                 => Slugs(randomProblems) = << "three-sum", "four-sum" >>

C6_Witness ==
    /\ pc = "done"
    /\ daily.Slug = "two-sum"
    /\ cfg.randomCount = 2
    /\ \E i \in Events :
         /\ Succeeded(i, "GetRandomProblems")
         /\ Slugs(trace[i].arg) = << "two-sum", "three-sum", "four-sum" >>
    /\ Slugs(randomProblems) = << "three-sum", "four-sum" >>

\* fetchRandomProblems has returned to Run
AfterRandomStep ==
    \/ pc \in { "articles", "compose", "send" }
    \/ HasSucceeded("Send")
    \/ HasFailed("Send")

(* C7: with a target count N <= 0 the run never calls GetRandomProblems and
   the supplementary list is empty; with N > 0 the step calls it exactly
   once, with count N, also when the call fails or returns fewer than N
   items; a failed call leaves an empty list and the run goes on to send. *)
C7_OneSourceCall ==
    /\ NumCalls("GetRandomProblems") <= 1
    /\ cfg.randomCount <= 0 =>
         NumCalls("GetRandomProblems") = 0 /\ randomProblems = << >>
    /\ (cfg.randomCount > 0 /\ AfterRandomStep) =>
         /\ NumCalls("GetRandomProblems") = 1
         /\ \A i \in Events :
              IsCall(i, "GetRandomProblems") => trace[i].arg = cfg.randomCount
    /\ HasFailed("GetRandomProblems") =>
         /\ randomProblems = << >>
         /\ AfterRandomStep
         /\ pc = "done" => (NumCalls("Send") = 1 /\ (HasSucceeded("Send") => result = "nil"))

C7_Witness ==
    /\ pc = "done"
    /\ cfg.randomCount = 2
    /\ HasFailed("GetRandomProblems")
    /\ NumCalls("GetRandomProblems") = 1
    /\ result = "nil"

(* C8: the supplementary list never has more problems than the target count
   N, whatever the source returns. *)
C8_TargetCountEnforced ==
    Len(randomProblems) <= (IF cfg.randomCount > 0 THEN cfg.randomCount ELSE 0)


----------------------------------------------------------------------------
(* articles.CompositeProvider.GetRecommendedArticles *)

\* fault: the key keeps the case of the link or title
canonicalArticleKey_CaseKept(article) ==
    IF article.Link # "" THEN TrimSpace(article.Link)
    ELSE IF article.Title # "" THEN TrimSpace(article.Title)
    ELSE ""

canonicalArticleKey(article) ==
    IF article.Link # "" THEN ToLower(TrimSpace(article.Link))
    ELSE IF article.Title # "" THEN ToLower(TrimSpace(article.Title))
    ELSE ""

\* lines 57-72: the loop over one provider's items; stops once `cnt` are collected
RECURSIVE MergeItems(_, _, _, _)
MergeItems(items, res, sn, cnt) ==
    IF items = << >> THEN [results |-> res, seen |-> sn]
    ELSE LET item == Head(items)
             key == canonicalArticleKey(item)
         IN IF key = "" \/ key \in sn
            THEN MergeItems(Tail(items), res, sn, cnt)
            ELSE IF Len(res) + 1 >= cnt
                 THEN [results |-> Append(res, item), seen |-> sn \cup {key}]
                 ELSE MergeItems(Tail(items), Append(res, item), sn \cup {key}, cnt)

\* articles the providers of the chain can return: the first two share a
\* link up to case and blanks, the next two a title, the last two have no
\* usable key
ChainArticles ==
    { Article("Heaps", "a.io/h", "dev.to"),
      Article("Heaps in Go", " A.IO/h ", "Medium"),
      Article("Tries", "", "dev.to"),
      Article(" TRIES", "", ""),
      Article("", "", "Medium"),
      Article("Blank", "  ", "Medium") }

\* error values of a failed article provider
ProviderErrors == { "medium feed status 503", "unexpected status 500", "context deadline exceeded" }

\* DailyDigest.Run is not executing
RunIdle ==
    /\ cfg = [randomCount |-> 0, articleCount |-> 0, hasWriter |-> FALSE, hasArticles |-> TRUE]
    /\ pc = "idle"
    /\ inflight = "none"
    /\ daily = NoProblem
    /\ randomProblems = << >>
    /\ articles = << >>
    /\ insight = ""
    /\ notification = NoNotification
    /\ result = "running"
    /\ trace = << >>

\* the composite as wired by provideArticleProvider (a non-empty chain),
\* entered with some count
InitComposite ==
    /\ RunIdle
    /\ RestIdle
    /\ chain \in 1..MaxChain
    /\ count \in (-1)..MaxCount
    /\ cpc = "entry"
    /\ idx = 1
    /\ results = << >>
    /\ seen = {}
    /\ firstErr = "nil"
    /\ provCalls = << >>
    /\ ret = [items |-> << >>, err |-> "nil"]

\* lines 33-35: count <= 0 returns (nil, nil)
CompositeRejectsCount ==
    /\ cpc = "entry"
    /\ count <= 0
    /\ ret' = [items |-> << >>, err |-> "nil"]
    /\ cpc' = "done"
    /\ UNCHANGED << chain, count, idx, results, seen, firstErr, provCalls >>
    /\ UNCHANGED << runVars, restVars >>

\* lines 37-39: the locals are set up and the loop is entered
CompositeBegins ==
    /\ cpc = "entry"
    /\ count > 0
    /\ results' = << >>
    /\ seen' = {}
    /\ firstErr' = "nil"
    /\ idx' = 1
    /\ cpc' = "loop"
    /\ UNCHANGED << chain, count, provCalls, ret >>
    /\ UNCHANGED << runVars, restVars >>

\* fault: the loop does not stop once count articles are collected
CallProvider_NoEarlyExit ==
    /\ cpc = "loop"
    /\ idx <= chain
    /\ provCalls' = Append(provCalls,
         [provider |-> idx, count |-> count - Len(results), collected |-> Len(results),
          err |-> "pending", offered |-> 0])
    /\ cpc' = "await"
    /\ UNCHANGED << chain, count, idx, results, seen, firstErr, ret >>
    /\ UNCHANGED << runVars, restVars >>

\* fault: every provider is asked for the full count
CallProvider_FullCount ==
    /\ cpc = "loop"
    /\ idx <= chain
    /\ Len(results) < count
    /\ provCalls' = Append(provCalls,
         [provider |-> idx, count |-> count, collected |-> Len(results),
          err |-> "pending", offered |-> 0])
    /\ cpc' = "await"
    /\ UNCHANGED << chain, count, idx, results, seen, firstErr, ret >>
    /\ UNCHANGED << runVars, restVars >>

\* lines 41-46: the next provider is called with the remaining deficit
CallProvider ==
    /\ cpc = "loop"
    /\ idx <= chain
    /\ Len(results) < count
    /\ provCalls' = Append(provCalls,
         [provider |-> idx, count |-> count - Len(results), collected |-> Len(results),
          err |-> "pending", offered |-> 0])
    /\ cpc' = "await"
    /\ UNCHANGED << chain, count, idx, results, seen, firstErr, ret >>
    /\ UNCHANGED << runVars, restVars >>

\* the outcome of the call in progress, written into its log entry
Logged(err, offered) ==
    [provCalls EXCEPT ![Len(provCalls)] = [@ EXCEPT !.err = err, !.offered = offered]]

\* fault: every failure overwrites the recorded error
ProviderFails_LastErrorKept ==
    /\ cpc = "await"
    /\ \E e \in ProviderErrors :
         /\ firstErr' = e
         /\ provCalls' = Logged(e, 0)
    /\ idx' = idx + 1
    /\ cpc' = "loop"
    /\ UNCHANGED << chain, count, results, seen, ret >>
    /\ UNCHANGED << runVars, restVars >>

\* lines 47-55: the provider failed; the first error is kept
ProviderFails ==
    /\ cpc = "await"
    /\ \E e \in ProviderErrors :
         /\ firstErr' = IF firstErr = "nil" THEN e ELSE firstErr
         /\ provCalls' = Logged(e, 0)
    /\ idx' = idx + 1
    /\ cpc' = "loop"
    /\ UNCHANGED << chain, count, results, seen, ret >>
    /\ UNCHANGED << runVars, restVars >>

\* lines 57-72: the provider returned `items`
ProviderReturns ==
    /\ cpc = "await"
    /\ \E items \in SeqUpTo(ChainArticles, MaxItems) :
         LET m == MergeItems(items, results, seen, count) IN
         /\ results' = m.results
         /\ seen' = m.seen
         /\ provCalls' = Logged("nil", Len(items))
    /\ idx' = idx + 1
    /\ cpc' = "loop"
    /\ UNCHANGED << chain, count, firstErr, ret >>
    /\ UNCHANGED << runVars, restVars >>

\* lines 42-44 and 75-79: the loop ends and the call returns
CompositeReturns ==
    /\ cpc = "loop"
    /\ (idx > chain \/ Len(results) >= count)
    /\ ret' = IF Len(results) = 0 /\ firstErr # "nil"
              THEN [items |-> << >>, err |-> firstErr]
              ELSE [items |-> results, err |-> "nil"]
    /\ cpc' = "done"
    /\ UNCHANGED << chain, count, idx, results, seen, firstErr, provCalls >>
    /\ UNCHANGED << runVars, restVars >>

NextComposite ==
    \/ CompositeRejectsCount
    \/ CompositeBegins
    \/ CallProvider
    \/ ProviderFails
    \/ ProviderReturns
    \/ CompositeReturns

SpecComposite == InitComposite /\ [][NextComposite]_vars


----------------------------------------------------------------------------
\* the canonical key as the specification words it
TrimmedLowerKey(a) ==
    IF a.Link # "" THEN ToLower(TrimSpace(a.Link)) ELSE ToLower(TrimSpace(a.Title))

DistinctKeys(as) ==
    \A k, l \in DOMAIN as : k # l => TrimmedLowerKey(as[k]) # TrimmedLowerKey(as[l])

(* C9: for every count N and every outcome of the providers, the composite
   collects and returns at most N articles (none for N <= 0), and no two of
   them have the same trimmed, lower-cased link (or title, when the link is
   empty). *)
C9_AtMostNDistinctKeys ==
    /\ Len(results) <= (IF count > 0 THEN count ELSE 0)
    /\ Len(ret.items) <= (IF count > 0 THEN count ELSE 0)
    /\ DistinctKeys(results)
    /\ DistinctKeys(ret.items)

C9_Witness ==
    /\ cpc = "done"
    /\ count = 2
    /\ Len(provCalls) = 2
    /\ provCalls[1].offered = 2
    /\ provCalls[2].offered = 2 /\ provCalls[2].count = 1
    /\ Len(ret.items) = 2
    /\ ret.err = "nil"

AllProvidersFailed ==
    /\ Len(provCalls) = chain
    /\ \A k \in DOMAIN provCalls : provCalls[k].err \notin { "nil", "pending" }

(* C10: when every provider of the chain was called and returned an error,
   the composite returns no articles and an error, and that error is the one
   the first provider of the chain returned. *)
C10_ChainExhaustedFirstError ==
    (cpc = "done" /\ AllProvidersFailed) =>
        /\ ret.err # "nil"
        /\ ret.err = provCalls[1].err
        /\ ret.items = << >>

C10_Witness ==
    /\ cpc = "done"
    /\ chain = 2
    /\ AllProvidersFailed
    /\ provCalls[1].err = "medium feed status 503"
    /\ provCalls[2].err = "unexpected status 500"
    /\ ret.err = "medium feed status 503"

SomeProviderSucceeded ==
    \E k \in DOMAIN provCalls : provCalls[k].err = "nil"

(* C11: when at least one provider of the chain returned without error, the
   composite call succeeds, also when other providers failed and nothing
   usable was collected: it then returns an empty list and no error. *)
C11_OneSuccessSucceeds ==
    (cpc = "done" /\ SomeProviderSucceeded) =>
        /\ ret.err = "nil"
        /\ ret.items = results

(* C16: the composite calls the providers in list order, each at most once
   and none skipped, and calls a provider only while fewer than N articles
   are collected: once N are collected no later provider is called. *)
C16_InOrderWhileShort ==
    /\ Len(provCalls) <= chain
    /\ \A k \in DOMAIN provCalls :
         /\ provCalls[k].provider = k
         /\ provCalls[k].collected < count
    /\ cpc = "await" =>
         /\ Len(results) < count
         /\ idx = Len(provCalls)
    /\ (cpc = "done" /\ count > 0 /\ Len(provCalls) < chain) => Len(results) >= count

C16_Witness ==
    /\ cpc = "done"
    /\ chain = 2
    /\ count = 2
    /\ Len(provCalls) = 1
    /\ provCalls[1].err = "nil"
    /\ Len(results) = 2

(* C17: every provider call passes as count the number N minus the number
   of articles collected when the call is made, a positive number that is
   never larger than the remaining deficit. *)
C17_CountIsDeficit ==
    /\ \A k \in DOMAIN provCalls :
         /\ provCalls[k].count = count - provCalls[k].collected
         /\ provCalls[k].count > 0
         /\ provCalls[k].count <= count
    /\ cpc = "await" => provCalls[Len(provCalls)].count = count - Len(results)

C17_Witness ==
    /\ cpc = "await"
    /\ count = 2
    /\ Len(provCalls) = 2
    /\ provCalls[1].err = "nil"
    /\ Len(results) = 1
    /\ provCalls[2].count = 1


----------------------------------------------------------------------------
(* The truncation helpers, each applied to one input: trimForDiscord and
   summarizeText (daily_digest.go), trimText (gemini_writer.go). *)

\* the continuation marker the helpers append
Marker == "..."

\* gemini_writer.go lines 251-256
trimText(text, max) ==
    IF Len(text) <= max THEN text
    ELSE TrimSpace(SubSeq(text, 1, max - Len(Marker))) \o Marker

\* webhook.go lines 100-105
truncate(value, limit) ==
    IF Len(value) <= limit THEN value
    ELSE TrimSpace(SubSeq(value, 1, limit - Len(Marker))) \o Marker

MaxTextLen == 6
MaxLimit == 5

TruncAlphabet == { "a", " " }

\* every string over TruncAlphabet of at most n characters
RECURSIVE StringsUpTo(_)
StringsUpTo(n) ==
    IF n = 0 THEN { "" }
    ELSE LET shorter == StringsUpTo(n - 1) IN
         shorter \cup { s \o c : s \in shorter, c \in TruncAlphabet }

TruncInputs == StringsUpTo(MaxTextLen)

\* the limits the helpers are called with leave room for the marker
TruncLimits == Len(Marker)..MaxLimit

InitTruncate ==
    /\ RunIdle
    /\ CompIdle
    /\ medium = [pc |-> "idle"]
    /\ writer = [pc |-> "idle"]
    /\ app = [main |-> "idle"]
    /\ \E content \in TruncInputs, limit \in TruncLimits :
         trunc = [pc |-> "ready", fn |-> "none", input |-> content, limit |-> limit,
                  out |-> "", again |-> ""]

\* daily_digest.go lines 195-205
ApplyTrimForDiscord ==
    /\ trunc.pc = "ready"
    /\ trunc' = [trunc EXCEPT !.pc = "done", !.fn = "trimForDiscord",
                              !.out = trimForDiscord(trunc.input, trunc.limit)]
    /\ UNCHANGED << runVars, compVars, medium, writer, app >>

\* daily_digest.go lines 207-224
ApplySummarizeText ==
    /\ trunc.pc = "ready"
    /\ trunc' = [trunc EXCEPT !.pc = "done", !.fn = "summarizeText",
                              !.out = summarizeText(trunc.input, trunc.limit)]
    /\ UNCHANGED << runVars, compVars, medium, writer, app >>

\* gemini_writer.go lines 251-256
ApplyTrimText ==
    /\ trunc.pc = "ready"
    /\ trunc' = [trunc EXCEPT !.pc = "done", !.fn = "trimText",
                              !.out = trimText(trunc.input, trunc.limit)]
    /\ UNCHANGED << runVars, compVars, medium, writer, app >>

\* webhook.go lines 100-105
ApplyTruncate ==
    /\ trunc.pc = "ready"
    /\ trunc' = [trunc EXCEPT !.pc = "done", !.fn = "truncate",
                              !.out = truncate(trunc.input, trunc.limit)]
    /\ UNCHANGED << runVars, compVars, medium, writer, app >>

\* the helper named fn
Helper(fn, content, limit) ==
    CASE fn = "trimForDiscord" -> trimForDiscord(content, limit)
      [] fn = "summarizeText" -> summarizeText(content, limit)
      [] fn = "trimText" -> trimText(content, limit)
      [] fn = "truncate" -> truncate(content, limit)

\* the same helper applied, with the same limit, to its own result
ApplyAgain ==
    /\ trunc.pc = "done"
    /\ trunc' = [trunc EXCEPT !.pc = "twice",
                              !.again = Helper(trunc.fn, trunc.out, trunc.limit)]
    /\ UNCHANGED << runVars, compVars, medium, writer, app >>

NextTruncate ==
    \/ ApplyTrimForDiscord
    \/ ApplySummarizeText
    \/ ApplyTrimText
    \/ ApplyTruncate
    \/ ApplyAgain

SpecTruncate == InitTruncate /\ [][NextTruncate]_vars

(* C14: truncating any string to a limit L never returns a string longer
   than L, the continuation marker included; this holds for trimForDiscord,
   summarizeText and trimText alike. *)
C14_NeverLongerThanLimit ==
    (trunc.pc = "done" /\ trunc.fn \in { "trimForDiscord", "summarizeText", "trimText" })
        => Len(trunc.out) <= trunc.limit


----------------------------------------------------------------------------
\* Compose returned a non-empty text to composeInsight
NarrativeComposed ==
    \E i \in Events : Succeeded(i, "Compose") /\ trace[i].arg # ""

\* the featured problem reduced to its title, difficulty and topics
TitleDifficultyTopics(d) ==
    [NoProblem EXCEPT !.Title = d.Title, !.Difficulty = d.Difficulty, !.Topics = d.Topics]

\* the description is the fallback text, which only the featured problem's
\* title, difficulty and topics determine, and is no narrative of the writer
IsFallbackText ==
    /\ notification.Description = fallbackDescription(TitleDifficultyTopics(daily))
    /\ notification.Description \notin Narratives

(* C12 as claimed: the description of the notification handed to Send equals
   the composed narrative exactly when a writer is configured and Compose
   succeeded with a non-empty text; in every other case it is a text that
   only the featured problem's title, difficulty and topics determine. *)
C12_NarrativeElseFallback ==
    NumCalls("Send") = 1 =>
        IF NarrativeComposed
        THEN cfg.hasWriter /\ notification.Description = ReturnedBy("Compose").arg
        ELSE IsFallbackText

(* C12 amended: the description is the composed narrative cut to the 1900
   bytes of composeInsight -- the narrative itself when it has at most 1900
   bytes, otherwise a prefix of at most 1900 bytes followed by the marker --
   exactly when a writer is configured and Compose succeeded with a
   non-empty text; in every other case it is a text that only the featured
   problem's title, difficulty and topics determine. *)
C12_CappedNarrativeElseFallback ==
    NumCalls("Send") = 1 =>
        IF NarrativeComposed
        THEN LET text == ReturnedBy("Compose").arg
                 kept == Len(notification.Description) - Len(Marker)
             IN /\ cfg.hasWriter
                /\ Len(text) <= InsightLimit => notification.Description = text
                /\ Len(text) > InsightLimit =>
                     /\ kept \in 1..InsightLimit
                     /\ notification.Description = SubSeq(text, 1, kept) \o Marker
        ELSE IsFallbackText

C12_Witness ==
    /\ pc = "done"
    /\ NarrativeComposed
    /\ ReturnedBy("Compose").arg = LongNarrative
    /\ notification.Description # LongNarrative
    /\ Len(notification.Description) <= InsightLimit + Len(Marker)


----------------------------------------------------------------------------
(* DailyDigest.buildNotification applied to one set of arguments, and the
   limits webhook.go's Send and convertFields truncate to *)

DescriptionLimit == 4096
FieldNameLimit == 256
FieldValueLimit == 1024

LongQueueLen == 12

\* a supplementary list of LongQueueLen problems
LongQueue ==
    [k \in 1..LongQueueLen |->
        Problem(k, "Problem " \o ToString(k), "problem-" \o ToString(k), 2)]

\* the featured problem: none, or one that Client.GetDailyChallenge returns
AssembleDailies ==
    { NoProblem } \cup
    { GetDailyChallenge(q).problem : q \in { r \in DailyResponses : r.titleSlug # "" } }

AssembleQueues ==
    { << >>,
      << Problem(1, "Two Sum", "two-sum", 1) >>,
      << Problem(15, "3Sum", "three-sum", 2), Problem(18, "4Sum", "four-sum", 3) >>,
      LongQueue }

\* what composeInsight returns: "" or a narrative cut to InsightLimit
AssembleInsights == { trimForDiscord(text, InsightLimit) : text \in Narratives }

InitAssemble ==
    /\ cfg = [randomCount |-> 0, articleCount |-> 0, hasWriter |-> FALSE, hasArticles |-> TRUE]
    /\ pc = "assemble"
    /\ inflight = "none"
    /\ daily \in AssembleDailies
    /\ randomProblems \in AssembleQueues
    /\ articles \in RunArticleLists
    /\ insight \in AssembleInsights
    /\ notification = NoNotification
    /\ result = "running"
    /\ trace = << >>
    /\ CompIdle
    /\ RestIdle

\* daily_digest.go lines 136-175
Assemble ==
    /\ pc = "assemble"
    /\ notification' = buildNotification(daily, randomProblems, articles, insight)
    /\ pc' = "assembled"
    /\ UNCHANGED << cfg, inflight, daily, randomProblems, articles, insight, result, trace >>
    /\ UNCHANGED << compVars, restVars >>

NextAssemble == Assemble

SpecAssemble == InitAssemble /\ [][NextAssemble]_vars

(* C13: every notification built for Send respects the size limits: the
   description is within the payload limit, every field value within the
   per-field limit and every field name within the label limit, whatever
   the number and size of problems and articles, so that the notifier's
   truncate shortens nothing. *)
C13_WithinLimits ==
    pc = "assembled" =>
        /\ Len(notification.Description) <= DescriptionLimit
        /\ truncate(notification.Description, DescriptionLimit) = notification.Description
        /\ \A k \in DOMAIN notification.Fields :
             LET field == notification.Fields[k] IN
             /\ Len(field.Name) <= FieldNameLimit
             /\ Len(field.Value) <= FieldValueLimit
             /\ truncate(field.Name, FieldNameLimit) = field.Name
             /\ truncate(field.Value, FieldValueLimit) = field.Value

NothingToShow ==
    /\ daily = NoProblem
    /\ randomProblems = << >>
    /\ articles = << >>
    /\ insight = ""

(* C15: buildNotification called with no featured problem, no supplementary
   problems, no articles and no narrative returns a notification with a
   non-empty title, a non-empty description and no fields. *)
C15_TotalOnEmptyInput ==
    (pc = "assembled" /\ NothingToShow) =>
        /\ notification.Title # ""
        /\ notification.Description # ""
        /\ notification.Fields = << >>

C15_Witness ==
    /\ pc = "assembled"
    /\ NothingToShow
    /\ notification.Title = "Daily LeetCode & Algorithms Digest"
    /\ notification.Description = "Curated plan for algorithms practice today."
    /\ notification.Fields = << >>


----------------------------------------------------------------------------
(* articles.MediumProvider.GetRecommendedArticles *)

MaxFeed == 2

\* strings.Index(s, ch) for a one-character ch, 1-based; 0 when absent
RECURSIVE IndexFrom(_, _, _)
IndexFrom(s, ch, i) ==
    IF i > Len(s) THEN 0
    ELSE IF CharAt(s, i) = ch THEN i
    ELSE IndexFrom(s, ch, i + 1)

\* medium.go lines 241-252
normalizeMediumLink(link) ==
    LET trimmed == TrimSpace(link)
        noPrefix == IF trimmed # "" /\ CharAt(trimmed, 1) = "<"
                    THEN SubSeq(trimmed, 2, Len(trimmed)) ELSE trimmed
        noSuffix == IF noPrefix # "" /\ CharAt(noPrefix, Len(noPrefix)) = ">"
                    THEN SubSeq(noPrefix, 1, Len(noPrefix) - 1) ELSE noPrefix
        query == IndexFrom(noSuffix, "?", 1)
    IN IF trimmed = "" THEN ""
       ELSE IF query # 0 THEN SubSeq(noSuffix, 1, query - 1) ELSE noSuffix

\* fetchPrimary lines 141-154: the articles built from the decoded items
RECURSIVE PrimaryArticles(_)
PrimaryArticles(items) ==
    IF items = << >> THEN << >>
    ELSE LET title == TrimSpace(Head(items).title)
             link == normalizeMediumLink(TrimSpace(Head(items).link))
         IN (IF title = "" \/ link = "" THEN << >>
             ELSE << Article(title, link, "Medium") >>)
            \o PrimaryArticles(Tail(items))

\* fetchProxy lines 186-202: the articles built from the blocks; a block is
\* given by what extractCDATA and extractFirstMediumURL read from it
RECURSIVE ProxyArticles(_)
ProxyArticles(blocks) ==
    IF blocks = << >> THEN << >>
    ELSE LET title == Head(blocks).title
             link == Head(blocks).link
         IN (IF title = "" \/ ToLower(title) = ToLower("Algorithms on Medium") \/ link = ""
             THEN << >>
             ELSE << Article(title, link, "Medium") >>)
            \o ProxyArticles(Tail(blocks))

\* <item> elements of the RSS feed
PrimaryItems ==
    { [title |-> "Heaps", link |-> "https://medium.com/h?source=rss"],
      [title |-> " Heaps in Go ", link |-> "<https://medium.com/H>"],
      [title |-> "Tries", link |-> " https://medium.com/t"],
      [title |-> "  ", link |-> "https://medium.com/x"] }

\* blocks of the proxy page
ProxyBlocks ==
    { [title |-> "Heaps again", link |-> "https://medium.com/h"],
      [title |-> "Graphs", link |-> "https://medium.com/g"],
      [title |-> "algorithms on medium", link |-> "https://medium.com/a"] }

PrimaryErrors == { "fetch medium feed: timeout", "medium feed status 503: " }
ProxyErrors == { "fetch medium proxy: timeout", "medium proxy status 429: " }

InitMedium ==
    /\ RunIdle
    /\ CompIdle
    /\ writer = [pc |-> "idle"]
    /\ trunc = [pc |-> "idle"]
    /\ app = [main |-> "idle"]
    /\ \E n \in 0..MaxCount :
         medium = [pc |-> "entry", count |-> n, aggregated |-> << >>, lastErr |-> "nil",
                   primary |-> "none", primaryItems |-> << >>, proxy |-> "none",
                   ret |-> [items |-> << >>, err |-> "nil"]]

\* lines 41-43: count <= 0 returns (nil, nil)
MediumRejectsCount ==
    /\ medium.pc = "entry"
    /\ medium.count <= 0
    /\ medium' = [medium EXCEPT !.pc = "done"]
    /\ UNCHANGED << runVars, compVars, writer, trunc, app >>

\* lines 45-48: fetchPrimary is entered
CallFetchPrimary ==
    /\ medium.pc = "entry"
    /\ medium.count > 0
    /\ medium' = [medium EXCEPT !.pc = "primary"]
    /\ UNCHANGED << runVars, compVars, writer, trunc, app >>

\* lines 50-55: fetchPrimary failed (transport, status, or no usable item)
FetchPrimaryFails ==
    /\ medium.pc = "primary"
    /\ \E e \in PrimaryErrors \cup { "medium primary feed empty" } :
         /\ e = "medium primary feed empty" =>
              \E f \in SeqUpTo(PrimaryItems, MaxFeed) : PrimaryArticles(f) = << >>
         /\ medium' = [medium EXCEPT !.pc = "gate", !.lastErr = e, !.primary = "failed"]
    /\ UNCHANGED << runVars, compVars, writer, trunc, app >>

\* lines 48-49: fetchPrimary returned its articles
FetchPrimaryReturns ==
    /\ medium.pc = "primary"
    /\ \E f \in SeqUpTo(PrimaryItems, MaxFeed) :
         /\ PrimaryArticles(f) # << >>
         /\ medium' = [medium EXCEPT !.pc = "gate",
                                     !.aggregated = @ \o PrimaryArticles(f),
                                     !.primary = "ok",
                                     !.primaryItems = PrimaryArticles(f)]
    /\ UNCHANGED << runVars, compVars, writer, trunc, app >>

\* fault: the proxy is fetched whatever the primary returned
CallFetchProxy_Always ==
    /\ medium.pc = "gate"
    /\ medium' = [medium EXCEPT !.pc = "proxy"]
    /\ UNCHANGED << runVars, compVars, writer, trunc, app >>

\* lines 57-58: too few articles so far; fetchProxy is entered
CallFetchProxy ==
    /\ medium.pc = "gate"
    /\ Len(medium.aggregated) < medium.count
    /\ medium' = [medium EXCEPT !.pc = "proxy"]
    /\ UNCHANGED << runVars, compVars, writer, trunc, app >>

\* line 57: enough articles; the proxy is not fetched
ProxySkipped ==
    /\ medium.pc = "gate"
    /\ ~(Len(medium.aggregated) < medium.count)
    /\ medium' = [medium EXCEPT !.pc = "finish", !.proxy = "skipped"]
    /\ UNCHANGED << runVars, compVars, writer, trunc, app >>

\* lines 60-65: fetchProxy failed
FetchProxyFails ==
    /\ medium.pc = "proxy"
    /\ \E e \in ProxyErrors \cup { "medium proxy returned no articles" } :
         /\ e = "medium proxy returned no articles" =>
              \E b \in SeqUpTo(ProxyBlocks, MaxFeed) : ProxyArticles(b) = << >>
         /\ medium' = [medium EXCEPT !.pc = "finish", !.lastErr = e, !.proxy = "failed"]
    /\ UNCHANGED << runVars, compVars, writer, trunc, app >>

\* lines 58-59: fetchProxy returned its articles
FetchProxyReturns ==
    /\ medium.pc = "proxy"
    /\ \E b \in SeqUpTo(ProxyBlocks, MaxFeed) :
         /\ ProxyArticles(b) # << >>
         /\ medium' = [medium EXCEPT !.pc = "finish",
                                     !.aggregated = @ \o ProxyArticles(b),
                                     !.proxy = "ok"]
    /\ UNCHANGED << runVars, compVars, writer, trunc, app >>

\* lines 75-85: the key of an article in the dedup map
MediumKey(article) == ToLower(TrimSpace(article.Link))

\* lines 75-85: the articles that enter the dedup map, the first of each key
RECURSIVE DedupLoop(_, _)
DedupLoop(as, keys) ==
    IF as = << >> THEN {}
    ELSE LET key == MediumKey(Head(as)) IN
         IF key = "" \/ key \in keys THEN DedupLoop(Tail(as), keys)
         ELSE { Head(as) } \cup DedupLoop(Tail(as), keys \cup { key })

\* lines 87-104: `unique` in map order, shuffled, cut to n: any n distinct
\* members of S in any order
Samples(S, n) ==
    { f \in [1..n -> S] : \A k, l \in 1..n : k # l => f[k] # f[l] }

Min(a, b) == IF a < b THEN a ELSE b

\* fault: the articles are sampled without deduplication
MediumReturns_NoDedup ==
    /\ medium.pc = "finish"
    /\ Len(medium.aggregated) > 0
    /\ \E pos \in Samples(DOMAIN medium.aggregated,
                           Min(medium.count, Len(medium.aggregated))) :
         medium' = [medium EXCEPT !.pc = "done",
                      !.ret = [items |-> [k \in DOMAIN pos |-> medium.aggregated[pos[k]]],
                               err |-> "nil"]]
    /\ UNCHANGED << runVars, compVars, writer, trunc, app >>

\* lines 68-73 and 92-94: nothing was fetched, or nothing has a link
MediumFails ==
    /\ medium.pc = "finish"
    /\ \/ /\ Len(medium.aggregated) = 0
          /\ medium' = [medium EXCEPT !.pc = "done",
                          !.ret = [items |-> << >>,
                                   err |-> IF medium.lastErr # "nil" THEN medium.lastErr
                                           ELSE "no medium articles available"]]
       \/ /\ Len(medium.aggregated) > 0
          /\ DedupLoop(medium.aggregated, {}) = {}
          /\ medium' = [medium EXCEPT !.pc = "done",
                          !.ret = [items |-> << >>,
                                   err |-> "medium feed returned no usable articles"]]
    /\ UNCHANGED << runVars, compVars, writer, trunc, app >>

\* lines 75-104: the deduplicated articles, shuffled and cut to count
MediumReturns ==
    /\ medium.pc = "finish"
    /\ Len(medium.aggregated) > 0
    /\ LET unique == DedupLoop(medium.aggregated, {}) IN
         /\ unique # {}
         /\ \E sample \in Samples(unique, Min(medium.count, Cardinality(unique))) :
              medium' = [medium EXCEPT !.pc = "done",
                                      !.ret = [items |-> sample, err |-> "nil"]]
    /\ UNCHANGED << runVars, compVars, writer, trunc, app >>

NextMedium ==
    \/ MediumRejectsCount
    \/ CallFetchPrimary
    \/ FetchPrimaryFails
    \/ FetchPrimaryReturns
    \/ CallFetchProxy
    \/ ProxySkipped
    \/ FetchProxyFails
    \/ FetchProxyReturns
    \/ MediumFails
    \/ MediumReturns

SpecMedium == InitMedium /\ [][NextMedium]_vars

Range(seq) == { seq[k] : k \in DOMAIN seq }

\* the canonical link as the specification words it: trimmed, lower-cased
CanonicalLinks(as) == { ToLower(TrimSpace(a.Link)) : a \in Range(as) }

\* the decision of line 57 has been taken
ProxyDecided == medium.pc \in { "proxy", "finish", "done" } /\ medium.primary # "none"

ProxyAttempted == medium.pc = "proxy" \/ medium.proxy \in { "ok", "failed" }

(* C18 as claimed: the proxy path is attempted exactly when the primary
   path, after deduplication of its candidates by canonical link, yielded
   fewer candidates than the requested count (none when it failed). *)
C18_ProxyIffDedupedShort ==
    ProxyDecided =>
        (ProxyAttempted <=> Cardinality(CanonicalLinks(medium.primaryItems)) < medium.count)

(* C18 amended: the proxy path is attempted exactly when the primary path
   yielded fewer candidates than the requested count, counted as returned,
   before any deduplication (none when it failed); hence it is attempted
   only when the deduplicated primary candidates are fewer than count. *)
C18_ProxyIffRawShort ==
    ProxyDecided =>
        /\ ProxyAttempted <=> Len(medium.primaryItems) < medium.count
        /\ ProxyAttempted => Cardinality(CanonicalLinks(medium.primaryItems)) < medium.count
        /\ medium.primary = "failed" => ProxyAttempted

C18_Witness ==
    /\ medium.pc = "done"
    /\ medium.count = 2
    /\ Len(medium.primaryItems) = 2
    /\ Cardinality(CanonicalLinks(medium.primaryItems)) = 1
    /\ medium.proxy = "skipped"
    /\ Len(medium.ret.items) = 1

(* C19: when the Medium provider succeeds for a count N it returns exactly
   min(N, U) articles, U being the number of distinct canonical links among
   the merged primary and proxy candidates; every returned article is one
   of the candidates and no two returned articles share a canonical link. *)
C19_SampleOfDistinctLinks ==
    (medium.pc = "done" /\ medium.ret.err = "nil") =>
        LET U == Cardinality(CanonicalLinks(medium.aggregated))
            items == medium.ret.items
        IN /\ Len(items) = (IF medium.count < U THEN medium.count ELSE U)
           /\ \A k \in DOMAIN items : items[k] \in Range(medium.aggregated)
           /\ \A k, l \in DOMAIN items :
                k # l => ToLower(TrimSpace(items[k].Link)) # ToLower(TrimSpace(items[l].Link))

C19_Witness ==
    /\ medium.pc = "done"
    /\ medium.ret.err = "nil"
    /\ medium.count = 2
    /\ Len(medium.aggregated) = 3
    /\ medium.proxy = "ok"
    /\ Cardinality(CanonicalLinks(medium.aggregated)) = 2
    /\ Len(medium.ret.items) = 2


----------------------------------------------------------------------------
(* writing.GeminiWriter.Compose *)

maxDiscordDescription == 2000

StatusNotFound == 404
StatusTooManyRequests == 429

\* the "- title (difficulty) - link" lines of buildPrompt for `problems`
RECURSIVE PromptProblems(_)
PromptProblems(problems) ==
    IF problems = << >> THEN ""
    ELSE "- " \o Head(problems).Title \o " (" \o Head(problems).Difficulty \o ") - "
         \o Head(problems).Link \o "\n" \o PromptProblems(Tail(problems))

\* the "- title - link" lines of buildPrompt for the articles
RECURSIVE PromptArticles(_)
PromptArticles(as) ==
    IF as = << >> THEN ""
    ELSE "- " \o Head(as).Title \o " - " \o Head(as).Link \o "\n"
         \o PromptArticles(Tail(as))

\* gemini_writer.go lines 78-112; the fixed instructions are shortened to
\* their first and last line, the non-ASCII characters of the source left out
buildPrompt(d, random, as) ==
    "Write Vietnamese algorithm notes with this exact structure:\n\n"
    \o (IF d # NoProblem
        THEN "Daily LeetCode Challenge:\n" \o PromptProblems(<< d >>)
             \o (IF Len(d.Topics) > 0
                 THEN "  Topics: " \o Join(d.Topics, ", ") \o "\n" ELSE "")
        ELSE "")
    \o (IF Len(random) > 0
        THEN "\nAdditional Practice Problems:\n" \o PromptProblems(random) ELSE "")
    \o (IF Len(as) > 0
        THEN "\nBackground Reading:\n" \o PromptArticles(as) ELSE "")
    \o "\nWrite the 3 sections above. Be concise.\n"

\* lines 233-249: the first part that is not blank, trimmed
RECURSIVE FirstText(_)
FirstText(parts) ==
    IF parts = << >> THEN ""
    ELSE IF TrimSpace(Head(parts)) # "" THEN TrimSpace(Head(parts))
    ELSE FirstText(Tail(parts))

RECURSIVE extractCandidateText(_)
extractCandidateText(candidates) ==
    IF candidates = << >> THEN ""
    ELSE IF FirstText(Head(candidates).parts) # "" THEN FirstText(Head(candidates).parts)
    ELSE extractCandidateText(Tail(candidates))

ErrTokenLimit ==
    "gemini hit token limit before generating output (try increasing maxOutputTokens)"

\* fault: every empty answer is reported with the same error
generate_OneEmptyError(x) ==
    IF x.transport # "ok"
    THEN [text |-> "", status |-> 0, err |-> "call gemini writer: " \o x.transport]
    ELSE IF x.status < 200 \/ x.status >= 300
    THEN [text |-> "", status |-> x.status,
          err |-> "gemini writer status " \o ToString(x.status) \o ": " \o TrimSpace(x.body)]
    ELSE IF ~x.decodable
    THEN [text |-> "", status |-> x.status, err |-> "decode gemini writer response: invalid"]
    ELSE LET text == extractCandidateText(x.candidates) IN
         IF text # "" THEN [text |-> text, status |-> x.status, err |-> "nil"]
         ELSE [text |-> "", status |-> x.status,
               err |-> "gemini writer returned empty text (candidates: "
                       \o ToString(Len(x.candidates)) \o ")"]

\* lines 144-231: (text, status, err) for one HTTP exchange x
generate(x) ==
    IF x.transport # "ok"
    THEN [text |-> "", status |-> 0, err |-> "call gemini writer: " \o x.transport]
    ELSE IF x.status < 200 \/ x.status >= 300
    THEN [text |-> "", status |-> x.status,
          err |-> "gemini writer status " \o ToString(x.status) \o ": " \o TrimSpace(x.body)]
    ELSE IF ~x.decodable
    THEN [text |-> "", status |-> x.status, err |-> "decode gemini writer response: invalid"]
    ELSE LET text == extractCandidateText(x.candidates) IN
         IF text # "" THEN [text |-> text, status |-> x.status, err |-> "nil"]
         ELSE IF Len(x.candidates) > 0 /\ x.candidates[1].finishReason = "MAX_TOKENS"
         THEN [text |-> "", status |-> x.status, err |-> ErrTokenLimit]
         ELSE [text |-> "", status |-> x.status,
               err |-> "gemini writer returned empty text (candidates: "
                       \o ToString(Len(x.candidates)) \o ")"]

Exchange(transport, status, body, decodable, candidates) ==
    [transport |-> transport, status |-> status, body |-> body,
     decodable |-> decodable, candidates |-> candidates]

Candidate(parts, finishReason) == [parts |-> parts, finishReason |-> finishReason]

\* a generated text longer than maxDiscordDescription
LongText == Repeat("Binary search halves the range at every step. ", 45)

\* what one call of the generateContent endpoint can end in
Exchanges ==
    { Exchange("context deadline exceeded", 0, "", FALSE, << >>),
      Exchange("ok", 400, " bad request ", FALSE, << >>),
      Exchange("ok", 404, "model not found", FALSE, << >>),
      Exchange("ok", 429, "quota exceeded", FALSE, << >>),
      Exchange("ok", 500, "", FALSE, << >>),
      Exchange("ok", 200, "", FALSE, << >>),
      Exchange("ok", 200, "", TRUE, << >>),
      Exchange("ok", 200, "", TRUE, << Candidate(<< >>, "MAX_TOKENS") >>),
      Exchange("ok", 200, "", TRUE, << Candidate(<< "  " >>, "STOP") >>),
      Exchange("ok", 200, "", TRUE, << Candidate(<< " Use a hash map. " >>, "STOP") >>),
      Exchange("ok", 200, "", TRUE,
               << Candidate(<< "" >>, "SAFETY"), Candidate(<< "", "Two pointers." >>, "STOP") >>),
      Exchange("ok", 200, "", TRUE, << Candidate(<< LongText >>, "MAX_TOKENS") >>) }

\* line 55: the candidate models of one Compose call
modelsToTry(g) == << g.model >>

\* Compose entered on a writer built by NewGeminiWriter(apiKey, model, ...)
\* with the featured problem, the supplementary list and the articles
InitWriter ==
    /\ cfg = [randomCount |-> 0, articleCount |-> 0, hasWriter |-> TRUE, hasArticles |-> TRUE]
    /\ pc = "idle"
    /\ inflight = "none"
    /\ daily \in AssembleDailies
    /\ randomProblems \in { << >>, << Problem(15, "3Sum", "three-sum", 2) >> }
    /\ articles \in RunArticleLists
    /\ insight = ""
    /\ notification = NoNotification
    /\ result = "running"
    /\ trace = << >>
    /\ CompIdle
    /\ medium = [pc |-> "idle"]
    /\ trunc = [pc |-> "idle"]
    /\ app = [main |-> "idle"]
    /\ \E apiKey \in { "", "key" }, model \in { "", "gemini-2.5-flash" } :
         writer = [pc |-> "entry", apiKey |-> apiKey, model |-> model, prompt |-> "",
                   idx |-> 1, attempts |-> << >>, lastErr |-> "nil",
                   ret |-> [text |-> "", err |-> "nil"]]

\* lines 44-46
ComposeNotConfigured ==
    /\ writer.pc = "entry"
    /\ (writer.apiKey = "" \/ writer.model = "")
    /\ writer' = [writer EXCEPT !.pc = "done",
                                !.ret = [text |-> "", err |-> "gemini writer not configured"]]
    /\ UNCHANGED << runVars, compVars, medium, trunc, app >>

\* lines 48-56: prompt and request body are built, the loop is entered
ComposeBegins ==
    /\ writer.pc = "entry"
    /\ ~(writer.apiKey = "" \/ writer.model = "")
    /\ writer' = [writer EXCEPT !.pc = "loop", !.idx = 1, !.lastErr = "nil",
                                !.prompt = buildPrompt(daily, randomProblems, articles)]
    /\ UNCHANGED << runVars, compVars, medium, trunc, app >>

\* lines 57-58: generate is called for the candidate at idx
CallGenerate ==
    /\ writer.pc = "loop"
    /\ writer.idx <= Len(modelsToTry(writer))
    /\ writer' = [writer EXCEPT !.pc = "generate"]
    /\ UNCHANGED << runVars, compVars, medium, trunc, app >>

\* the attempt in progress, logged with its outcome
Attempt(x, out) ==
    [model |-> modelsToTry(writer)[writer.idx], exchange |-> x,
     status |-> out.status, err |-> out.err]

\* lines 59-63: generate returned a text; Compose returns it cut to
\* maxDiscordDescription
GenerateReturns ==
    /\ writer.pc = "generate"
    /\ \E x \in Exchanges :
         LET out == generate(x) IN
         /\ out.err = "nil"
         /\ writer' = [writer EXCEPT !.pc = "done",
                         !.attempts = Append(@, Attempt(x, out)),
                         !.ret = [text |-> trimText(out.text, maxDiscordDescription),
                                  err |-> "nil"]]
    /\ UNCHANGED << runVars, compVars, medium, trunc, app >>

\* lines 65-69: generate failed; not found and rate limited continue the
\* loop, every other failure leaves it
GenerateFails ==
    /\ writer.pc = "generate"
    /\ \E x \in Exchanges :
         LET out == generate(x) IN
         /\ out.err # "nil"
         /\ writer' = [writer EXCEPT
                         !.attempts = Append(@, Attempt(x, out)),
                         !.lastErr = out.err,
                         !.idx = IF out.status \in { StatusNotFound, StatusTooManyRequests }
                                 THEN @ + 1 ELSE @,
                         !.pc = IF out.status \in { StatusNotFound, StatusTooManyRequests }
                                THEN "loop" ELSE "exit"]
    /\ UNCHANGED << runVars, compVars, medium, trunc, app >>

\* lines 72-75: the loop is over without a text
ComposeGivesUp ==
    /\ \/ writer.pc = "exit"
       \/ writer.pc = "loop" /\ writer.idx > Len(modelsToTry(writer))
    /\ writer' = [writer EXCEPT !.pc = "done",
                    !.ret = [text |-> "",
                             err |-> IF writer.lastErr = "nil"
                                     THEN "gemini writer failed without detailed error"
                                     ELSE writer.lastErr]]
    /\ UNCHANGED << runVars, compVars, medium, trunc, app >>

NextWriter ==
    \/ ComposeNotConfigured
    \/ ComposeBegins
    \/ CallGenerate
    \/ GenerateReturns
    \/ GenerateFails
    \/ ComposeGivesUp

SpecWriter == InitWriter /\ [][NextWriter]_vars

Retryable(a) == a.status \in { StatusNotFound, StatusTooManyRequests }

(* C20: when the attempt on the primary model fails with a not-found or a
   rate-limited status, Compose makes a further attempt with the next
   candidate model before giving up; when an attempt fails in any other
   way, Compose makes no further attempt and returns that error. *)
C20_FallbackOnNotFoundOrRateLimit ==
    writer.pc = "done" =>
        /\ (/\ writer.attempts # << >>
            /\ writer.attempts[1].err # "nil"
            /\ Retryable(writer.attempts[1]))
             => /\ Len(writer.attempts) >= 2
                /\ writer.attempts[2].model # writer.attempts[1].model
        /\ \A k \in DOMAIN writer.attempts :
             (writer.attempts[k].err # "nil" /\ ~Retryable(writer.attempts[k]))
                => /\ k = Len(writer.attempts)
                   /\ writer.ret.err = writer.attempts[k].err


----------------------------------------------------------------------------
\* daily_digest.go lines 122-134: what composeInsight makes of the (text,
\* err) pair that Compose returned
composeInsight(composed) ==
    IF composed.err # "nil" THEN "" ELSE trimForDiscord(composed.text, InsightLimit)

\* the backend answered 2xx with a decodable payload without any text
AnsweredEmpty(x) ==
    /\ x.transport = "ok"
    /\ x.status >= 200 /\ x.status < 300
    /\ x.decodable
    /\ \A k \in DOMAIN x.candidates :
         \A j \in DOMAIN x.candidates[k].parts : TrimSpace(x.candidates[k].parts[j]) = ""

\* ... and reported that the length limit was hit
TruncatedBeforeContent(x) ==
    /\ AnsweredEmpty(x)
    /\ x.candidates # << >>
    /\ x.candidates[1].finishReason = "MAX_TOKENS"

BackendUnavailable(x) == x.transport = "ok" /\ (x.status < 200 \/ x.status >= 300)

LastExchange == writer.attempts[Len(writer.attempts)].exchange

(* C21: when the backend answers successfully with empty text and finish
   reason MAX_TOKENS, Compose fails with the token-limit error; a plain
   empty answer and a non-2xx answer fail with other errors; and the
   notification built after that failure has the fallback description. *)
C21_TruncatedBeforeContentDistinct ==
    (writer.pc = "done" /\ writer.attempts # << >>) =>
        /\ TruncatedBeforeContent(LastExchange) =>
             /\ writer.ret.err = ErrTokenLimit
             /\ writer.ret.text = ""
             /\ buildNotification(daily, randomProblems, articles,
                                  composeInsight(writer.ret)).Description
                  = fallbackDescription(daily)
        /\ (AnsweredEmpty(LastExchange) /\ ~TruncatedBeforeContent(LastExchange)) =>
             writer.ret.err \notin { "nil", ErrTokenLimit }
        /\ BackendUnavailable(LastExchange) =>
             writer.ret.err \notin { "nil", ErrTokenLimit }

C21_Witness ==
    /\ writer.pc = "done"
    /\ writer.attempts # << >>
    /\ TruncatedBeforeContent(LastExchange)
    /\ writer.ret.err = ErrTokenLimit
    /\ daily.Slug = "two-sum"

\* the text the backend produced in the last exchange
BackendText == extractCandidateText(LastExchange.candidates)

(* C22: the narrative Compose returns is within the output budget, and when
   the backend text is longer than the budget and has whitespace inside the
   budget, the returned text is a prefix of it that stops at a whitespace
   boundary (no partial word at its end), followed by the marker. *)
C22_CutAtWhitespace ==
    (writer.pc = "done" /\ writer.ret.err = "nil") =>
        /\ Len(writer.ret.text) <= maxDiscordDescription
        /\ (/\ Len(BackendText) > maxDiscordDescription
            /\ IndexFrom(BackendText, " ", 1) \in 1..maxDiscordDescription)
             => LET kept == Len(writer.ret.text) - Len(Marker) IN
                /\ kept >= 0
                /\ writer.ret.text = SubSeq(BackendText, 1, kept) \o Marker
                /\ IsSpace(CharAt(BackendText, kept + 1))


----------------------------------------------------------------------------
(* C23: truncation to a limit L is idempotent for trimForDiscord, trimText
   and the notifier's truncate: a string within L is returned unchanged,
   and the helper applied with the same L to its own result returns that
   result unchanged. *)
C23_TruncationIdempotent ==
    trunc.fn \in { "trimForDiscord", "trimText", "truncate" } =>
        /\ (trunc.pc \in { "done", "twice" } /\ Len(trunc.input) <= trunc.limit)
             => trunc.out = trunc.input
        /\ trunc.pc = "twice" => trunc.again = trunc.out


----------------------------------------------------------------------------
\* positions of the fields of the notification that are named `name`
FieldsNamed(name) ==
    { k \in DOMAIN notification.Fields : notification.Fields[k].Name = name }

\* the three fields are present exactly when their input is, once each and
\* in this order, the third being named `reading`
FieldsFollowInputs(reading) ==
    /\ Cardinality(FieldsNamed("Daily Challenge")) = (IF daily # NoProblem THEN 1 ELSE 0)
    /\ Cardinality(FieldsNamed("Practice Queue")) = (IF randomProblems # << >> THEN 1 ELSE 0)
    /\ Cardinality(FieldsNamed(reading)) = (IF articles # << >> THEN 1 ELSE 0)
    /\ \A i \in FieldsNamed("Daily Challenge") :
         \A j \in FieldsNamed("Practice Queue") \cup FieldsNamed(reading) : i < j
    /\ \A i \in FieldsNamed("Practice Queue") : \A j \in FieldsNamed(reading) : i < j

(* C24 as claimed: buildNotification includes a "Daily Challenge" field
   exactly when a featured problem exists, a "Practice Queue" field exactly
   when the supplementary list is non-empty and a "Reading List" field
   exactly when the article list is non-empty, each at most once and in
   that order. *)
C24_FieldsPresentInOrder ==
    pc = "assembled" => FieldsFollowInputs("Reading List")

(* C24 amended: the same, the third field being named "Algorithm Reading
   List"; the notification has no other field. *)
C24_FieldsPresentInOrderAsNamed ==
    pc = "assembled" =>
        /\ FieldsFollowInputs("Algorithm Reading List")
        /\ \A k \in DOMAIN notification.Fields :
             notification.Fields[k].Name
                \in { "Daily Challenge", "Practice Queue", "Algorithm Reading List" }

C24_Witness ==
    /\ pc = "assembled"
    /\ daily # NoProblem
    /\ Len(randomProblems) = 2
    /\ Len(articles) = 2
    /\ Len(notification.Fields) = 3
    /\ notification.Fields[1].Name = "Daily Challenge"
    /\ notification.Fields[2].Name = "Practice Queue"
    /\ notification.Fields[3].Name = "Algorithm Reading List"

----------------------------------------------------------------------------
(* app.App: New, Run and scheduleJob, with main's signal context *)

MaxRuns == 2         \* most scheduled runs the cron scheduler starts
MaxClock == 4        \* minutes followed after cron.Start

\* the deadline of a scheduled run's context, in minutes
RunTimeoutMinutes == 2

\* SCHEDULE_CRON values: every minute, every third minute, and one the
\* standard five-field parser rejects
Schedules == { "* * * * *", "*/3 * * * *", "every day" }

\* minutes between two firings of a schedule, 0 for one that does not parse
Period(schedule) ==
    CASE schedule = "* * * * *" -> 1
      [] schedule = "*/3 * * * *" -> 3
      [] OTHER -> 0

\* the random generators the providers keep: leetcode.Client.rnd,
\* MediumProvider.rnd and DevtoProvider.rnd, each created once by its New
Generators == { "leetcode", "medium", "devto" }

\* most shuffles one generator serves
MaxDraws == MaxRuns + 1

\* one DailyDigest.Run of the application: the goroutine it runs in, how far
\* it is, the minutes since it started, the generators it shuffled with and
\* the state it found each of those in
DigestRun(kind) ==
    [kind |-> kind, phase |-> "fetching", age |-> 0,
     used |-> {}, saw |-> [g \in Generators |-> 0]]

\* the context a run passes to its blocking calls is done: the startup run
\* has main's signal context, a scheduled run a fresh two-minute deadline
CtxDone(r) ==
    IF app.runs[r].kind = "startup"
    THEN app.signalled
    ELSE app.runs[r].age >= RunTimeoutMinutes

\* runs that have not returned
Executing == { r \in DOMAIN app.runs : app.runs[r].phase # "done" }

Scheduled == { r \in DOMAIN app.runs : app.runs[r].kind = "scheduled" }

\* the schedule has a firing at this minute that the scheduler has not served
Due ==
    /\ app.clock > 0
    /\ app.clock % Period(app.schedule) = 0
    /\ app.fired < app.clock
    /\ Cardinality(Scheduled) < MaxRuns

AppUnchanged == UNCHANGED << runVars, compVars, medium, writer, trunc >>

InitApp ==
    /\ RunIdle
    /\ CompIdle
    /\ medium = [pc |-> "idle"]
    /\ writer = [pc |-> "idle"]
    /\ trunc = [pc |-> "idle"]
    /\ \E schedule \in Schedules :
         app = [main |-> "scheduleJob", schedule |-> schedule,
                signalled |-> FALSE, cron |-> "new", clock |-> 0, fired |-> 0,
                runs |-> << >>, rnd |-> [g \in Generators |-> 0],
                err |-> "nil"]

\* scheduleJob: AddFunc rejects the schedule and Run returns the error
ScheduleRejected ==
    /\ app.main = "scheduleJob"
    /\ Period(app.schedule) = 0
    /\ app' = [app EXCEPT !.main = "returned", !.err = "invalid schedule"]
    /\ AppUnchanged

\* scheduleJob registers the job; Run calls usecase.Run with its own context
StartupRunBegins ==
    /\ app.main = "scheduleJob"
    /\ Period(app.schedule) > 0
    /\ app' = [app EXCEPT !.main = "first",
                          !.runs = << DigestRun("startup") >>]
    /\ AppUnchanged

\* a run's provider calls: the ones that succeed shuffle with the provider's
\* generator, reading and advancing its state; two runs inside their provider
\* calls at once use a generator without synchronisation, which leaves it in
\* any state. The run then calls Notifier.Send.
RunFetches(r) ==
    /\ app.main # "returned"
    /\ app.runs[r].phase = "fetching"
    /\ \E used \in SUBSET Generators :
         /\ CtxDone(r) => used = {}
         /\ \E rnd \in [Generators -> 0 .. MaxDraws] :
              /\ \A g \in Generators \ used : rnd[g] = app.rnd[g]
              /\ IF \E q \in Executing \ {r} : app.runs[q].phase = "fetching"
                 THEN TRUE
                 ELSE \A g \in used : rnd[g] = app.rnd[g] + 1
              /\ app' = [app EXCEPT !.rnd = rnd,
                                    !.runs[r].phase = "sending",
                                    !.runs[r].used = used,
                                    !.runs[r].saw =
                                        [g \in Generators |->
                                           IF g \in used THEN app.rnd[g] ELSE 0]]
    /\ AppUnchanged

\* the daily challenge cannot be fetched and the run returns the error
RunAborts(r) ==
    /\ app.main # "returned"
    /\ app.runs[r].phase = "fetching"
    /\ app' = [app EXCEPT !.runs[r].phase = "done"]
    /\ AppUnchanged

\* Notifier.Send delivers the notification
RunSendReturns(r) ==
    /\ app.main # "returned"
    /\ app.runs[r].phase = "sending"
    /\ ~CtxDone(r)
    /\ app' = [app EXCEPT !.runs[r].phase = "done"]
    /\ AppUnchanged

\* Notifier.Send fails, by the webhook or by the run's context
RunSendFails(r) ==
    /\ app.main # "returned"
    /\ app.runs[r].phase = "sending"
    /\ app' = [app EXCEPT !.runs[r].phase = "done"]
    /\ AppUnchanged

\* usecase.Run has returned to App.Run, which only logs its error
StartupRunReturned ==
    /\ app.main = "first"
    /\ app.runs[1].phase = "done"
    /\ app' = [app EXCEPT !.main = "start"]
    /\ AppUnchanged

\* cron.Start; Run then blocks on ctx.Done()
CronStarts ==
    /\ app.main = "start"
    /\ app' = [app EXCEPT !.main = "wait", !.cron = "running"]
    /\ AppUnchanged

\* the scheduler reaches a firing of the schedule and starts the job in a
\* goroutine of its own, whatever the earlier jobs are doing
CronFires ==
    /\ app.cron = "running"
    /\ Due
    /\ app' = [app EXCEPT !.fired = app.clock,
                          !.runs = Append(app.runs, DigestRun("scheduled"))]
    /\ AppUnchanged

\* a minute passes: no firing is left unserved, and a scheduled run past its
\* deadline has had its blocking call fail
MinutePasses ==
    /\ app.cron = "running"
    /\ app.clock < MaxClock
    /\ ~Due
    /\ \A r \in Executing : ~CtxDone(r)
    /\ app' = [app EXCEPT !.clock = app.clock + 1,
                          !.runs = [r \in DOMAIN app.runs |->
                                      IF r \in Executing
                                      THEN [app.runs[r] EXCEPT !.age = @ + 1]
                                      ELSE app.runs[r]]]
    /\ AppUnchanged

\* SIGINT or SIGTERM: main's context is done
Signal ==
    /\ app.main # "returned"
    /\ ~app.signalled
    /\ app' = [app EXCEPT !.signalled = TRUE]
    /\ AppUnchanged

\* Run leaves <-ctx.Done() and calls cron.Stop: no further firing
CronStops ==
    /\ app.main = "wait"
    /\ app.signalled
    /\ app' = [app EXCEPT !.main = "stopping", !.cron = "stopped"]
    /\ AppUnchanged

\* every job has returned: stopCtx is done and Run returns
StopCompletes ==
    /\ app.main = "stopping"
    /\ Executing = {}
    /\ app' = [app EXCEPT !.main = "returned"]
    /\ AppUnchanged

\* five seconds pass with a job still running and Run returns
StopTimesOut ==
    /\ app.main = "stopping"
    /\ Executing # {}
    /\ app' = [app EXCEPT !.main = "returned"]
    /\ AppUnchanged

NextApp ==
    \/ ScheduleRejected
    \/ StartupRunBegins
    \/ \E r \in DOMAIN app.runs : RunFetches(r)
    \/ \E r \in DOMAIN app.runs : RunAborts(r)
    \/ \E r \in DOMAIN app.runs : RunSendReturns(r)
    \/ \E r \in DOMAIN app.runs : RunSendFails(r)
    \/ StartupRunReturned
    \/ CronStarts
    \/ CronFires
    \/ MinutePasses
    \/ Signal
    \/ CronStops
    \/ StopCompletes
    \/ StopTimesOut

SpecApp == InitApp /\ [][NextApp]_vars

(* C25: no mutable state is shared between runs, the providers' random
   generators included: whichever generator a run shuffles with, the run
   finds it in the state its provider's New left it in, untouched by any
   other run. *)
C25_NoStateAcrossRuns ==
    \A r \in DOMAIN app.runs :
        \A g \in app.runs[r].used : app.runs[r].saw[g] = 0

(* C26: once the shutdown signal has arrived, the context of every run still
   executing, the startup run or a scheduled one, is done, so that its
   pending and later blocking calls are cancelled; and App.Run has not
   returned while a run is inside Notifier.Send. *)
C26_ShutdownCancelsAndWaits ==
    /\ app.signalled => \A r \in Executing : CtxDone(r)
    /\ app.main = "returned" =>
         \A r \in DOMAIN app.runs : app.runs[r].phase # "sending"

(* C27: at most one DailyDigest.Run is executing at any time: the startup
   run has returned before the scheduler is started, and no scheduled run is
   started while an earlier one is still executing. *)
C27_OneRunAtATime ==
    /\ Cardinality(Executing) <= 1
    /\ app.cron = "running" => 1 \notin Executing

====
